---- MODULE Spec2Model ----
(***************************************************************************)
(* A model of src/src/hooks/useImport.ts: the three importers (importJSON, *)
(* importSpecificFile, importPPTXFile), the asynchronous conversion of a   *)
(* raw document (processSlidesFromRawData / parseElements) and the pure    *)
(* geometry helpers it uses.                                               *)
(*                                                                         *)
(* Numbers.  The code computes in IEEE doubles.  The model computes in     *)
(* integers: every raw length is a multiple of 3 and the declared canvas   *)
(* widths are 1500 and 3000: the ratios 96/72, 1000/1500 and 1000/3000     *)
(* scale every length exactly; rotations are 0 or 180 degrees, where sine  *)
(* and cosine are taken as the exact values 0 and -1.  A viewBox component *)
(* is a fraction <<numerator, denominator>>, and so are the width and the  *)
(* height of a produced element, which the code sets to 0.1 or rounds to   *)
(* two decimals in places.                                                 *)
(*                                                                         *)
(* Identifiers.  The code gives every produced element a fresh nanoid.     *)
(* The model records instead, in the field `from`, the tag of the raw      *)
(* element the produced element was converted from.                        *)
(*                                                                         *)
(* Style fields (content, outline, fill, gradient, shadow, table cells,    *)
(* chart series) carry no control flow of their own and are left out; a    *)
(* table has at least one row and a chart has its data.                    *)
(***************************************************************************)
EXTENDS Integers, Sequences, FiniteSets, TLC

\* Longest list of a raw slide's own elements that the importers are given.
MaxElems == 2

\* Longest list of siblings that flipGroupElements is given on its own.
MaxSiblings == 2

VARIABLES
    pc,          \* where the import is: idle, reading, slides, elements, transcoding,
                 \* transcoded, done, failed (error caught and reported), crashed
                 \* (unhandled rejection), readError, returned
    importer,    \* "none", "json", "specific", "pptx"
    file,        \* the file handed to the importer: [parses, json]
    options,     \* [cover, fixedViewport]
    store,       \* the external slides store
    store0,      \* the store as it was when the import was started
    exporting,   \* exporting.value
    notifications, \* the message.error calls so far, oldest first
    calls,       \* the store mutations so far, oldest first
    ratio,       \* processSlidesFromRawData: ratio, <<numerator, denominator>>
    rawSlides,   \* processSlidesFromRawData: the raw slides not yet started
    slides,      \* processSlidesFromRawData: slides
    slide,       \* processSlidesFromRawData: slide (the one being filled)
    stack,       \* the active parseElements calls, innermost first: each the rest
                 \* of its sortedElements
    awaiting     \* <<el>>: the transcoder call for the raw image el is outstanding;
                 \* <<el, outcome>>: it has settled and line 290 has yet to resume

vars == <<pc, importer, file, options, store, store0, exporting, notifications,
          calls, ratio, rawSlides, slides, slide, stack, awaiting>>

----------------------------------------------------------------------------
(* Raw elements, as the external parser (or JSON.parse) delivers them.      *)

RawText(tag, order, left, top, width, height) ==
    [type |-> "text", tag |-> tag, order |-> order, left |-> left, top |-> top,
     width |-> width, height |-> height, rotate |-> 0,
     isFlipH |-> FALSE, isFlipV |-> FALSE]

RawImage(tag, order, src, left, top, width, height) ==
    [type |-> "image", tag |-> tag, order |-> order, left |-> left, top |-> top,
     width |-> width, height |-> height, rotate |-> 0, src |-> src,
     isFlipH |-> FALSE, isFlipV |-> FALSE]

\* math, audio, video, chart and unknown kinds: geometry only.
RawPlain(type, tag, order, left, top, width, height) ==
    [type |-> type, tag |-> tag, order |-> order, left |-> left, top |-> top,
     width |-> width, height |-> height, rotate |-> 0,
     isFlipH |-> FALSE, isFlipV |-> FALSE]

\* hasPath = FALSE: el.path is undefined.
RawShape(tag, order, shapType, hasPath, path, left, top, width, height, rotate, flipH, flipV) ==
    [type |-> "shape", tag |-> tag, order |-> order, left |-> left, top |-> top,
     width |-> width, height |-> height, rotate |-> rotate, shapType |-> shapType,
     hasPath |-> hasPath, path |-> path, isFlipH |-> flipH, isFlipV |-> flipV]

\* type is "group" or "diagram".
RawContainer(type, tag, order, elements, left, top, width, height, rotate, flipH, flipV) ==
    [type |-> type, tag |-> tag, order |-> order, left |-> left, top |-> top,
     width |-> width, height |-> height, rotate |-> rotate, elements |-> elements,
     isFlipH |-> flipH, isFlipV |-> flipV]

IsContainer(el) == el.type \in {"group", "diagram"}

----------------------------------------------------------------------------
(* Strings.  The code tests strings with startsWith, regular expressions    *)
(* and includes; over the finite alphabet of the model each test is a set.  *)

PngSrc == "data:image/png;base64,AAAA"
EmfDataUrl == "data:image/x-emf;base64,BBBB"
EmfFileName == "media/image1.EMF"
ConvertedPng == "data:image/png;base64,CCCC"

\* src.startsWith('data:image/x-emf') || /\.emf$/i.test(src)
IsEmfSrc(src) == src \in {EmfDataUrl, EmfFileName}

\* What WMF2PNG.getPNG may settle with: an <img> tag carrying a src, a string
\* with no src attribute, or a rejection.
TranscoderOutcomes ==
    { [rejected |-> FALSE, html |-> "<img src=\"data:image/png;base64,CCCC\">"],
      [rejected |-> FALSE, html |-> "<canvas></canvas>"],
      [rejected |-> TRUE, html |-> ""] }

\* pngHtml.match(/src="([^"]+)"/): <<>> for no match, else <<src>>
SrcMatch(html) ==
    IF html = "<img src=\"data:image/png;base64,CCCC\">" THEN <<ConvertedPng>> ELSE <<>>

DefaultPath == "M 0 0 L 200 0 L 200 200 L 0 200 Z"
PathBox == "M 0 0 L 12 0 L 12 6 Z"
PathWide == "M 0 0 L 12 0"
PathTall == "M 0 0 L 0 6"
PathPoint == "M 0 0 Z"
PathNaN == "M 0 0 L NaN 6"

\* el.path.includes('NaN')
IncludesNaN(path) == path = PathNaN

\* el.path.replace(/NaN/g, '0')
ReplaceNaN(path) == IF path = PathNaN THEN PathTall ELSE path

\* /Connector/.test(el.shapType)
IsConnector(shapType) ==
    shapType \in {"straightConnector1", "bentConnector3", "curvedConnector3"}

\* A JavaScript string is truthy unless it is empty.
Truthy(str) == str # ""

----------------------------------------------------------------------------
(* Arithmetic.                                                              *)

\* v * ratio, ratio = <<numerator, denominator>>
Scale(v, r) == (v * r[1]) \div r[2]

Abs(x) == IF x < 0 THEN -x ELSE x

Min2(a, b) == IF a < b THEN a ELSE b

SetMin(S) == CHOOSE x \in S : \A y \in S : x <= y

SetMax(S) == CHOOSE x \in S : \A y \in S : x >= y

\* Math.cos and Math.sin of an angle in degrees, for the right angles.
Cos(deg) == CASE deg = 0 -> 1 [] deg = 90 -> 0 [] deg = 180 -> -1 [] deg = 270 -> 0

Sin(deg) == CASE deg = 0 -> 0 [] deg = 90 -> 1 [] deg = 180 -> 0 [] deg = 270 -> -1

\* A fraction <<n, d>>, d > 0, is strictly positive.
FracPositive(f) == f[1] > 0 /\ f[2] > 0

\* (a / b) > (c / d) in IEEE arithmetic, for a, b >= 0 and c, d > 0:
\* x / 0 is Infinity for x > 0, and 0 / 0 is NaN, which compares false.
QuotientGreater(a, b, c, d) ==
    IF b = 0 THEN a > 0 ELSE a * d > c * b

----------------------------------------------------------------------------
(* parseElements, line 370: elements.sort((a, b) => a.order - b.order).     *)
(* Array.prototype.sort is stable.                                          *)

RECURSIVE InsertByOrder(_, _)
\* el put into the sorted list after every element whose order is not larger
InsertByOrder(el, sorted) ==
    IF sorted = <<>> THEN <<el>>
    ELSE IF Head(sorted).order <= el.order
         THEN <<Head(sorted)>> \o InsertByOrder(el, Tail(sorted))
         ELSE <<el>> \o sorted

RECURSIVE SortByOrderFrom(_)
SortByOrderFrom(s) ==
    IF s = <<>> THEN <<>>
    ELSE InsertByOrder(s[Len(s)], SortByOrderFrom(SubSeq(s, 1, Len(s) - 1)))

\* A plausible slip: the list is processed as given.
SortByOrderOmitted(s) == s

SortByOrder(s) == SortByOrderFrom(s)

----------------------------------------------------------------------------
(* rotateLine, parseLineElement.                                            *)

\* rotateLine: the segment turned about its midpoint, then moved so that its
\* bounding box starts at the origin; offset is how far the box moved.
rotateLine(start, end, angleDeg) ==
    LET cosA == Cos(angleDeg)
        sinA == Sin(angleDeg)
        \* twice startTransX etc.: start - mid = (start - end) / 2
        sx2 == start[1] - end[1]
        sy2 == start[2] - end[2]
        startNewX == (sx2 * cosA - sy2 * sinA + start[1] + end[1]) \div 2
        startNewY == (sx2 * sinA + sy2 * cosA + start[2] + end[2]) \div 2
        endNewX == ((-sx2) * cosA - (-sy2) * sinA + start[1] + end[1]) \div 2
        endNewY == ((-sx2) * sinA + (-sy2) * cosA + start[2] + end[2]) \div 2
        beforeMinX == Min2(start[1], end[1])
        beforeMinY == Min2(start[2], end[2])
        afterMinX == Min2(startNewX, endNewX)
        afterMinY == Min2(startNewY, endNewY)
    IN  [start |-> <<startNewX - afterMinX, startNewY - afterMinY>>,
         end |-> <<endNewX - afterMinX, endNewY - afterMinY>>,
         offset |-> <<afterMinX - beforeMinX, afterMinY - beforeMinY>>]

\* A plausible slip: the two one-flag branches exchanged.
LineEndpointsSwapped(isFlipV, isFlipH, width, height) ==
    IF ~isFlipV /\ ~isFlipH THEN [start |-> <<0, 0>>, end |-> <<width, height>>]
    ELSE IF isFlipV /\ isFlipH THEN [start |-> <<width, height>>, end |-> <<0, 0>>]
    ELSE IF isFlipV /\ ~isFlipH THEN [start |-> <<width, 0>>, end |-> <<0, height>>]
    ELSE [start |-> <<0, height>>, end |-> <<width, 0>>]

\* parseLineElement, lines 181-199
LineEndpoints(isFlipV, isFlipH, width, height) ==
    IF ~isFlipV /\ ~isFlipH THEN [start |-> <<0, 0>>, end |-> <<width, height>>]
    ELSE IF isFlipV /\ isFlipH THEN [start |-> <<width, height>>, end |-> <<0, 0>>]
    ELSE IF isFlipV /\ ~isFlipH THEN [start |-> <<0, height>>, end |-> <<width, 0>>]
    ELSE [start |-> <<width, 0>>, end |-> <<0, height>>]

\* line 204: +((el.borderWidth || 1) * ratio).toFixed(2), in hundredths; the
\* raw lines of the model carry no borderWidth
StrokeWidth(borderWidth, r) ==
    <<(200 * borderWidth * r[1] + r[2]) \div (2 * r[2]), 100>>

\* parseLineElement: el is the raw shape, already scaled by parseElements.
parseLineElement(el, r) ==
    LET ends == LineEndpoints(el.isFlipV, el.isFlipH, el.width, el.height)
        rot == rotateLine(ends.start, ends.end, el.rotate)
        start == IF el.rotate # 0 THEN rot.start ELSE ends.start
        end == IF el.rotate # 0 THEN rot.end ELSE ends.end
        half == <<Abs(start[1] - end[1]) \div 2, Abs(start[2] - end[2]) \div 2>>
    IN  [type |-> "line", from |-> el.tag,
         width |-> StrokeWidth(1, r),
         left |-> IF el.rotate # 0 THEN el.left + rot.offset[1] ELSE el.left,
         top |-> IF el.rotate # 0 THEN el.top + rot.offset[2] ELSE el.top,
         start |-> start, end |-> end,
         points |-> <<"", IF el.shapType = "straightConnector1" THEN "arrow" ELSE "">>,
         broken2 |-> IF el.shapType = "bentConnector3" THEN <<half>> ELSE <<>>,
         cubic |-> IF el.shapType = "curvedConnector3" THEN <<half, half>> ELSE <<>>]

----------------------------------------------------------------------------
(* flipGroupElements, calculateRotatedPosition.                             *)

\* A plausible slip: the siblings are mirrored about the left or top edge of
\* the joint bounding box instead of its centre.
flipGroupElementsAboutEdge(elements, axis) ==
    IF elements = <<>> THEN <<>>
    ELSE
    LET idx == 1..Len(elements)
        minX == SetMin({elements[i].left : i \in idx})
        minY == SetMin({elements[i].top : i \in idx})
    IN  [i \in idx |->
            [elements[i] EXCEPT
                !.left = IF axis = "y" THEN 2 * minX - elements[i].left - elements[i].width ELSE @,
                !.top = IF axis = "x" THEN 2 * minY - elements[i].top - elements[i].height ELSE @]]

\* flipGroupElements: every sibling mirrored about the centre of the joint
\* bounding box; 2 * centerX is minX + maxX.
flipGroupElements(elements, axis) ==
    IF elements = <<>> THEN <<>>
    ELSE
    LET idx == 1..Len(elements)
        minX == SetMin({elements[i].left : i \in idx})
        maxX == SetMax({elements[i].left + elements[i].width : i \in idx})
        minY == SetMin({elements[i].top : i \in idx})
        maxY == SetMax({elements[i].top + elements[i].height : i \in idx})
    IN  [i \in idx |->
            [elements[i] EXCEPT
                !.left = IF axis = "y" THEN minX + maxX - elements[i].left - elements[i].width ELSE @,
                !.top = IF axis = "x" THEN minY + maxY - elements[i].top - elements[i].height ELSE @]]

\* line 248: newElement is a copy, and lines 250-251 assign to the copy, so
\* the list handed in is after the call what it was before.
InputAfterFlip(elements, result) == elements

\* calculateRotatedPosition: numerators over 2, then halved.
calculateRotatedPosition(x, y, w, h, ox, oy, k) ==
    LET relX2 == 2 * ox - w
        relY2 == 2 * oy - h
        rotatedX2 == relX2 * Cos(k) + relY2 * Sin(k)
        rotatedY2 == (-relX2) * Sin(k) + relY2 * Cos(k)
    IN  [x |-> (2 * x + w + rotatedX2) \div 2,
         y |-> (2 * y + h + rotatedY2) \div 2]

----------------------------------------------------------------------------
(* Shape resolution, parseElements lines 513-619.                           *)

\* SHAPE_LIST flattened (configs/shapes): pptxShapeType -> entry.  An entry
\* with hasFormula names a SHAPE_PATH_FORMULAS formula; formulaPath stands for
\* the string that formula returns.
ShapeTable ==
    [t \in {"rect", "roundRect", "triangle"} |->
        CASE t = "rect" ->
               [path |-> "M 0 0 L 200 0 L 200 200 L 0 200 Z", viewBox |-> <<200, 200>>,
                hasFormula |-> FALSE, pathFormula |-> "", editable |-> FALSE,
                formulaPath |-> ""]
          [] t = "roundRect" ->
               [path |-> "M 50 0 L 150 0 Q 200 0 200 50 Z", viewBox |-> <<200, 200>>,
                hasFormula |-> TRUE, pathFormula |-> "roundRect", editable |-> TRUE,
                formulaPath |-> "roundRect(w,h,0.125)"]
          [] t = "triangle" ->
               [path |-> "M 100 0 L 0 200 L 200 200 Z", viewBox |-> <<200, 200>>,
                hasFormula |-> TRUE, pathFormula |-> "triangle", editable |-> FALSE,
                formulaPath |-> "triangle(w,h)"]]

\* shapeList.find(item => item.pptxShapeType === el.shapType), <<>> for undefined
FindShape(shapType) ==
    IF shapType \in DOMAIN ShapeTable THEN <<ShapeTable[shapType]>> ELSE <<>>

\* getSvgPathRange (utils/svgPathParser): the largest x and y of a path.
getSvgPathRange(path) ==
    CASE path = PathBox -> [maxX |-> 12, maxY |-> 6]
      [] path = PathWide -> [maxX |-> 12, maxY |-> 0]
      [] path = PathTall -> [maxX |-> 0, maxY |-> 6]
      [] path = DefaultPath -> [maxX |-> 200, maxY |-> 200]
      [] OTHER -> [maxX |-> 0, maxY |-> 0]

\* lines 593-598 and 611-616: the viewBox of a raw path, as two fractions
ViewBoxOfRange(range, originWidth, originHeight) ==
    IF QuotientGreater(range.maxX, range.maxY, originWidth, originHeight)
    THEN <<<<range.maxX, 1>>, <<range.maxX * originHeight, originWidth>>>>
    ELSE <<<<range.maxY * originWidth, originHeight>>, <<range.maxY, 1>>>>

\* A plausible slip: the element starts with no path, so that an unresolved
\* shape fails the test of line 619.
InitialShapePathEmpty == ""

\* line 544: the path a shape element starts with
InitialShapePath == DefaultPath

\* line 543: the viewBox a shape element starts with
InitialViewBox == <<<<200, 1>>, <<200, 1>>>>

\* line 601: el.path!.includes throws when el.path is undefined
ShapeThrows(el) ==
    /\ el.type = "shape"
    /\ ~(el.shapType = "line" \/ IsConnector(el.shapType))
    /\ el.shapType = "custom"
    /\ ~el.hasPath

\* lines 536-617: the shape element as it stands at line 619.  el is the raw
\* shape, already scaled; originWidth and originHeight are its raw sizes.
ShapeElement(el, originWidth, originHeight) ==
    LET found == FindShape(el.shapType)
        initial == [type |-> "shape", from |-> el.tag,
                    width |-> <<el.width, 1>>, height |-> <<el.height, 1>>,
                    left |-> el.left, top |-> el.top,
                    viewBox |-> InitialViewBox, path |-> InitialShapePath,
                    rotate |-> el.rotate, flipH |-> el.isFlipH, flipV |-> el.isFlipV,
                    pathFormula |-> "", keypoints |-> FALSE, special |-> FALSE]
        \* lines 574-599
        resolved ==
            IF found # <<>>
            THEN IF found[1].hasFormula
                 THEN [initial EXCEPT !.pathFormula = found[1].pathFormula,
                                     !.viewBox = <<<<el.width, 1>>, <<el.height, 1>>>>,
                                     !.path = found[1].formulaPath,
                                     !.keypoints = found[1].editable]
                 ELSE [initial EXCEPT !.path = found[1].path,
                                     !.viewBox = <<<<found[1].viewBox[1], 1>>,
                                                   <<found[1].viewBox[2], 1>>>>]
            ELSE IF el.hasPath /\ Truthy(el.path) /\ ~IncludesNaN(el.path)
                 THEN [initial EXCEPT !.path = el.path,
                                     !.viewBox = ViewBoxOfRange(getSvgPathRange(el.path),
                                                                originWidth, originHeight)]
                 ELSE initial
        \* lines 600-617; 0.1 is written <<1, 10>>
        custom ==
            IF IncludesNaN(el.path)
            THEN [resolved EXCEPT !.width = IF @[1] = 0 THEN <<1, 10>> ELSE @,
                                  !.height = IF @[1] = 0 THEN <<1, 10>> ELSE @,
                                  !.path = ReplaceNaN(el.path)]
            ELSE [resolved EXCEPT !.special = TRUE, !.path = el.path]
    IN  IF el.shapType = "custom"
        THEN [custom EXCEPT !.viewBox = ViewBoxOfRange(getSvgPathRange(custom.path),
                                                       originWidth, originHeight)]
        ELSE resolved

----------------------------------------------------------------------------
(* The other converters of parseElements.                                   *)

\* lines 384-403, 466-476, 479-492, 495-505, 682-698, 755-772: the element
\* pushed for a text, math, audio, video, table or chart
PlainElement(el) ==
    CASE el.type = "text" ->
           [type |-> "text", from |-> el.tag,
            width |-> <<el.width, 1>>, height |-> <<el.height, 1>>,
            left |-> el.left, top |-> el.top, rotate |-> el.rotate]
      [] el.type = "math" ->
           [type |-> "image", from |-> el.tag, src |-> "picBase64",
            width |-> <<el.width, 1>>, height |-> <<el.height, 1>>,
            left |-> el.left, top |-> el.top, rotate |-> 0]
      [] OTHER ->
           [type |-> el.type, from |-> el.tag,
            width |-> <<el.width, 1>>, height |-> <<el.height, 1>>,
            left |-> el.left, top |-> el.top, rotate |-> 0]

\* lines 421-433: the image element, src being the source after line 419
ImageElement(el, src) ==
    [type |-> "image", from |-> el.tag, src |-> src,
     width |-> <<el.width, 1>>, height |-> <<el.height, 1>>,
     left |-> el.left, top |-> el.top,
     rotate |-> el.rotate, flipH |-> el.isFlipH, flipV |-> el.isFlipV]

\* A plausible slip: the converted source is kept even when there is none.
convertEmfResultNoFallback(dataUrl, outcome) ==
    [src |-> ConvertedPng, failed |-> FALSE]

\* convertEmfDataUrlToPng, lines 284-305, once WMF2PNG.getPNG(base64) has
\* settled with outcome: the source returned, and whether the catch block ran
convertEmfResult(dataUrl, outcome) ==
    IF ~outcome.rejected /\ SrcMatch(outcome.html) # <<>>
    THEN [src |-> SrcMatch(outcome.html)[1], failed |-> FALSE]
    ELSE [src |-> dataUrl, failed |-> TRUE]

\* lines 378-381: el.width = el.width * ratio, ...
Scaled(el, r) ==
    [el EXCEPT !.width = Scale(@, r), !.height = Scale(@, r),
               !.left = Scale(@, r), !.top = Scale(@, r)]

\* A plausible slip: the children of a container are lost.
ContainerChildrenLost(el, originLeft, originTop, originWidth, originHeight) == <<>>

\* A plausible slip: the container's origin is not added to its children.
ContainerChildrenNotMoved(el, originLeft, originTop, originWidth, originHeight) ==
    el.elements

\* lines 775-796 (group) and 800-804 (diagram): the list handed to the
\* recursive parseElements call
ContainerChildren(el, originLeft, originTop, originWidth, originHeight) ==
    IF el.type = "group"
    THEN LET moved ==
                 [i \in 1..Len(el.elements) |->
                     LET c == el.elements[i]
                         p == calculateRotatedPosition(originLeft, originTop, originWidth,
                                                       originHeight, c.left, c.top, el.rotate)
                     IN  [c EXCEPT !.left = IF el.rotate # 0 THEN p.x ELSE c.left + originLeft,
                                   !.top = IF el.rotate # 0 THEN p.y ELSE c.top + originTop,
                                   !.isFlipH = IF el.isFlipH THEN TRUE ELSE @,
                                   !.isFlipV = IF el.isFlipV THEN TRUE ELSE @]]
             flippedH == IF el.isFlipH THEN flipGroupElements(moved, "y") ELSE moved
         IN  IF el.isFlipV THEN flipGroupElements(flippedH, "x") ELSE flippedH
    ELSE [i \in 1..Len(el.elements) |->
             [el.elements[i] EXCEPT !.left = @ + originLeft, !.top = @ + originTop]]

----------------------------------------------------------------------------
(* The inputs Init and the importers draw from.  Every raw length is a      *)
(* multiple of 3; tags are unique within a slide.                           *)

TopText == RawText("text", 1, 3, 6, 12, 6)

TopEmf == RawImage("emf", 0, EmfDataUrl, 0, 0, 6, 6)

\* a custom shape with no path: line 601 throws
TopCustomNoPath == RawShape("nopath", 2, "custom", FALSE, "", 0, 0, 6, 6, 0, FALSE, FALSE)

InnerGroup ==
    RawContainer("group", "g2", 2,
        << RawText("g2.text", 1, 3, 3, 6, 3),
           RawImage("g2.png", 0, PngSrc, 0, 0, 3, 3),
           RawShape("g2.line", 1, "curvedConnector3", FALSE, "", 0, 3, 6, 3, 0, FALSE, FALSE) >>,
        3, 3, 12, 6, 0, TRUE, FALSE)

TopGroup ==
    RawContainer("group", "g", 1,
        << InnerGroup,
           RawShape("g.line", 0, "bentConnector3", FALSE, "", 0, 0, 12, 6, 0, FALSE, TRUE),
           RawShape("g.custom", 1, "custom", TRUE, PathNaN, 3, 0, 6, 6, 0, FALSE, FALSE),
           RawShape("g.wide", 1, "unlisted", TRUE, PathWide, 3, 0, 6, 6, 0, FALSE, FALSE),
           \* a shape-table entry with a path formula, of width 0
           RawShape("g.flat", 0, "roundRect", FALSE, "", 3, 3, 0, 6, 0, FALSE, FALSE),
           RawImage("g.emf", 1, EmfFileName, 6, 6, 3, 3) >>,
        6, 3, 24, 12, 0, FALSE, FALSE)

TurnedGroup ==
    RawContainer("group", "g3", 1,
        << RawPlain("video", "g3.video", 0, 3, 0, 6, 3),
           RawShape("g3.line", 1, "straightConnector1", FALSE, "", 0, 0, 6, 6, 180, TRUE, TRUE),
           RawShape("g3.flip", 2, "line", FALSE, "", 0, 0, 6, 3, 0, TRUE, FALSE),
           RawShape("g3.box", 1, "unlisted", TRUE, PathBox, 0, 3, 6, 3, 0, FALSE, FALSE) >>,
        3, 3, 12, 6, 180, FALSE, TRUE)

TopDiagram ==
    RawContainer("diagram", "d", 0,
        << RawPlain("audio", "d.audio", 1, 0, 0, 3, 3),
           RawShape("d.line", 1, "straightConnector1", FALSE, "", 0, 0, 6, 3, 0, FALSE, FALSE),
           RawPlain("smartArtNode", "d.other", 0, 0, 0, 3, 3),
           RawShape("d.nan", 1, "unlisted", TRUE, PathNaN, 3, 0, 6, 6, 0, FALSE, FALSE),
           \* no shape-table entry, no path
           RawShape("d.unknown", 2, "unlisted", FALSE, "", 0, 3, 6, 6, 0, FALSE, FALSE),
           RawShape("d.point", 0, "unlisted", TRUE, PathPoint, 3, 0, 6, 6, 0, FALSE, FALSE),
           RawShape("d.empty", 2, "custom", TRUE, "", 3, 0, 6, 6, 0, FALSE, FALSE),
           TurnedGroup >>,
        3, 6, 12, 12, 0, FALSE, FALSE)

Pool ==
    { TopText, TopEmf, TopCustomNoPath, TopGroup, TopDiagram }

LayoutTable == RawPlain("table", "layout.table", 1, 0, 0, 12, 6)

LayoutTall == RawShape("layout.tall", 0, "unlisted", TRUE, PathTall, 0, 0, 6, 12, 0, FALSE, FALSE)

LayoutLists == { <<>>, <<LayoutTable>>, <<LayoutTall>> }

\* The lists of at most n different elements of S.
ListsOf(S, n) ==
    UNION { { s \in [1..k -> S] : \A i, j \in 1..k : i # j => s[i] # s[j] } : k \in 0..n }

\* item of json.slides
RawSlide(hasFill, elements, layoutElements) ==
    [hasFill |-> hasFill, fill |-> [type |-> "solid", value |-> "#abc"],
     elements |-> elements, layoutElements |-> layoutElements, note |-> ""]

GeneratedSlides ==
    { RawSlide(TRUE, es, ls) : es \in ListsOf(Pool, MaxElems), ls \in LayoutLists }

SecondSlide ==
    RawSlide(FALSE,
        << RawPlain("math", "s2.math", 1, 0, 0, 3, 3),
           RawPlain("chart", "s2.chart", 0, 0, 0, 6, 3),
           RawShape("s2.rect", 2, "rect", FALSE, "", 0, 0, 6, 3, 0, FALSE, FALSE),
           RawShape("s2.tri", 1, "triangle", FALSE, "", 0, 0, 6, 3, 0, FALSE, FALSE),
           \* a group, neither turned nor flipped, and a diagram within it
           RawContainer("group", "s2.g", 3,
               << RawText("s2.g.text", 0, 3, 9, 12, 6),
                  RawContainer("diagram", "s2.g.d", 1,
                      << RawImage("s2.g.d.png", 0, PngSrc, 6, 3, 9, 3),
                         RawShape("s2.g.d.line", 1, "line", FALSE, "", 3, 0, 6, 3, 0, FALSE, FALSE),
                         \* lines 602-603: a size of 0 becomes 0.1
                         RawShape("s2.g.d.zero", 2, "custom", TRUE, PathNaN, 0, 3, 0, 0, 0,
                                  FALSE, FALSE) >>,
                      9, 6, 18, 9, 0, FALSE, FALSE) >>,
               6, 12, 30, 18, 0, FALSE, FALSE) >>,
        <<>>)

\* A slide already in the editor's form (types/slides Slide), as a JSON value.
NormalSlide ==
    [hasFill |-> FALSE,
     elements |-> << [type |-> "text", from |-> "saved", width |-> 16, height |-> 8,
                      left |-> 4, top |-> 8, rotate |-> 0] >>,
     background |-> [type |-> "solid", color |-> "#fff"], remark |-> ""]

\* A JSON value: null, an array (its items), or an object (its size, themeColors
\* and slides members, each present or not).
JsonObject(hasSize, width, hasTheme, hasSlides, jsonSlides) ==
    [kind |-> "object", hasSize |-> hasSize, width |-> width, hasTheme |-> hasTheme,
     themeColors |-> <<"#c00000", "#00b050">>, hasSlides |-> hasSlides,
     slides |-> jsonSlides, items |-> <<>>]

JsonArray(items) ==
    [kind |-> "array", hasSize |-> FALSE, width |-> 0, hasTheme |-> FALSE,
     themeColors |-> <<>>, hasSlides |-> FALSE, slides |-> <<>>, items |-> items]

JsonNull ==
    [kind |-> "null", hasSize |-> FALSE, width |-> 0, hasTheme |-> FALSE,
     themeColors |-> <<>>, hasSlides |-> FALSE, slides |-> <<>>, items |-> <<>>]

\* size and themeColors of the generated raw documents
DocHeads ==
    { [hasSize |-> FALSE, width |-> 0, hasTheme |-> FALSE],
      [hasSize |-> TRUE, width |-> 1500, hasTheme |-> TRUE] }

\* Raw documents with a slides list, as the external parser delivers them.
RawDocs ==
    { JsonObject(h.hasSize, h.width, h.hasTheme, TRUE, <<s>>) : h \in DocHeads, s \in GeneratedSlides }
    \cup { JsonObject(TRUE, 3000, TRUE, TRUE, <<RawSlide(TRUE, <<TopEmf, TopText>>, <<>>), SecondSlide>>),
           JsonObject(TRUE, 3000, FALSE, TRUE, <<SecondSlide, RawSlide(TRUE, <<TopCustomNoPath>>, <<>>)>>),
           JsonObject(TRUE, 3000, FALSE, TRUE, <<>>),
           JsonObject(TRUE, 0, FALSE, TRUE, <<SecondSlide>>) }

\* What JSON.parse may return to importJSON.
JsonValues ==
    RawDocs
    \cup { JsonObject(TRUE, 3000, TRUE, FALSE, <<>>),
           JsonObject(FALSE, 0, FALSE, FALSE, <<>>),
           JsonObject(FALSE, 0, FALSE, TRUE, <<>>),
           JsonObject(FALSE, 0, FALSE, TRUE, <<NormalSlide>>),
           JsonObject(FALSE, 0, FALSE, TRUE, <<SecondSlide>>),
           JsonArray(<<NormalSlide, NormalSlide>>),
           JsonArray(<<>>),
           JsonNull }

Unparseable == [parses |-> FALSE, json |-> JsonNull]

JsonFiles == { [parses |-> TRUE, json |-> j] : j \in JsonValues } \cup { Unparseable }

PptxFiles == { [parses |-> TRUE, json |-> j] : j \in RawDocs } \cup { Unparseable }

SpecificFiles ==
    { [parses |-> TRUE, json |-> j] :
        j \in { JsonObject(FALSE, 0, FALSE, TRUE, <<NormalSlide>>),
                JsonObject(FALSE, 0, FALSE, TRUE, <<>>),
                JsonObject(FALSE, 0, FALSE, FALSE, <<>>),
                JsonArray(<<NormalSlide>>),
                JsonNull } }
    \cup { Unparseable }

\* { cover, fixedViewport }
Options == [cover : BOOLEAN, fixedViewport : BOOLEAN]

EmptySlide ==
    [elements |-> <<>>, background |-> [type |-> "solid", color |-> "#fff"], remark |-> ""]

ExistingSlide ==
    [elements |-> << [type |-> "text", from |-> "existing", width |-> 8, height |-> 8,
                      left |-> 0, top |-> 0, rotate |-> 0] >>,
     background |-> [type |-> "solid", color |-> "#fff"], remark |-> "kept"]

\* The slides store before an import: a new presentation, or one with content.
InitialStores ==
    { [slides |-> ss, slidesDefined |-> TRUE, slideIndex |-> 0, viewportSize |-> 1000,
       themeColors |-> <<"#5b9bd5">>] : ss \in { <<EmptySlide>>, <<ExistingSlide, EmptySlide>> } }

----------------------------------------------------------------------------
(* The store and the notifications.                                         *)

\* line 98, 125, 837: message.error('无法正确读取 / 解析该文件')
FileErrorMessage == "cannot read or parse the file"

\* line 302: message.error('EMF 图片转换失败')
EmfErrorMessage == "EMF image conversion failed"

\* useSlideHandler, isEmptySlide: one slide, with no elements
isEmptySlide(st) ==
    /\ st.slidesDefined
    /\ Len(st.slides) = 1
    /\ st.slides[1].elements = <<>>

\* useAddSlidesOrElements, addSlidesFromData: the new slides go in after the
\* current one, and the first of them becomes the current one
addSlidesFromData(st, newSlides) ==
    [st EXCEPT !.slides = SubSeq(@, 1, st.slideIndex + 1) \o newSlides
                          \o SubSeq(@, st.slideIndex + 2, Len(@)),
               !.slideIndex = @ + 1]

\* lines 83-92 (and 113-122, 843-852): the merge of the produced slides.
\* defined = FALSE: the value handed over is undefined.
MergeStore(st, cover, defined, newSlides) ==
    IF cover
    THEN [st EXCEPT !.slideIndex = 0, !.slides = newSlides, !.slidesDefined = defined]
    ELSE IF isEmptySlide(st)
         THEN [st EXCEPT !.slides = newSlides, !.slidesDefined = defined]
         ELSE addSlidesFromData(st, newSlides)

MergeCalls(st, cover) ==
    IF cover THEN <<"updateSlideIndex", "setSlides", "addHistorySnapshot">>
    ELSE IF isEmptySlide(st) THEN <<"setSlides", "addHistorySnapshot">>
    ELSE <<"addSlidesFromData">>

\* addSlidesFromData iterates over its argument: undefined makes it throw
MergeThrows(st, cover, defined) == ~defined /\ ~cover /\ ~isEmptySlide(st)

----------------------------------------------------------------------------
(* processSlidesFromRawData, lines 311-327: what it does before the loop.   *)

\* A plausible slip: the viewport is set whatever fixedViewport is.
ViewportSizeCallsAlways(json, fixedViewport) ==
    IF json.hasSize /\ json.width # 0 THEN <<Scale(json.width, <<96, 72>>)>> ELSE <<>>

\* lines 318-323: the arguments of the setViewportSize calls, in order
ViewportSizeCalls(json, fixedViewport) ==
    IF json.hasSize /\ json.width # 0 /\ ~fixedViewport
    THEN <<Scale(json.width, <<96, 72>>)>>
    ELSE <<>>

\* lines 318-321: ratio
RatioOf(json, fixedViewport) ==
    IF json.hasSize /\ json.width # 0 /\ fixedViewport
    THEN <<1000, json.width>>
    ELSE <<96, 72>>

\* lines 322 and 326 on the store
PrologueStore(st, json, fixedViewport) ==
    LET sized == ViewportSizeCalls(json, fixedViewport)
        st1 == IF sized # <<>> THEN [st EXCEPT !.viewportSize = sized[Len(sized)]] ELSE st
    IN  IF json.hasTheme THEN [st1 EXCEPT !.themeColors = json.themeColors] ELSE st1

PrologueCalls(json, fixedViewport) ==
    [i \in 1..Len(ViewportSizeCalls(json, fixedViewport)) |-> "setViewportSize"]
    \o (IF json.hasTheme THEN <<"setTheme">> ELSE <<>>)

\* lines 65-67
isRawFormat(json) ==
    \/ json.hasSize
    \/ json.hasTheme
    \/ /\ json.hasSlides
       /\ Len(json.slides) > 0
       /\ json.slides[1].hasFill

\* lines 331-367: the slide record before its elements are parsed
NewSlide(item) ==
    [elements |-> <<>>,
     background |-> [type |-> "solid", color |-> IF item.hasFill THEN item.fill.value ELSE "#fff"],
     remark |-> item.note]

\* A plausible slip: the layout elements are parsed in a call of their own,
\* after the slide's elements.
SlideElementsLayoutLast(item) ==
    SortByOrder(item.elements) \o SortByOrder(item.layoutElements)

\* lines 809 and 370: sortedElements of the outermost parseElements call
SlideElements(item) == SortByOrder(item.elements \o item.layoutElements)

\* lines 373-374
OriginSize(v) == IF v = 0 THEN 1 ELSE v

\* What one pass of the loop body pushes for a raw element that is neither a
\* container nor an image awaiting the transcoder: <<>> or one element.
Produced(raw, r) ==
    LET el == Scaled(raw, r)
    IN  CASE raw.type \in {"text", "math", "audio", "video", "table", "chart"} ->
               <<PlainElement(el)>>
          [] raw.type = "image" -> <<ImageElement(el, el.src)>>
          [] raw.type = "shape" /\ (raw.shapType = "line" \/ IsConnector(raw.shapType)) ->
               <<parseLineElement(el, r)>>
          [] raw.type = "shape" /\ ~(raw.shapType = "line" \/ IsConnector(raw.shapType)) ->
               LET element == ShapeElement(el, OriginSize(raw.width), OriginSize(raw.height))
               IN  IF Truthy(element.path) THEN <<element>> ELSE <<>>
          [] OTHER -> <<>>

----------------------------------------------------------------------------
(* The importers.                                                           *)

Init ==
    /\ pc = "idle"
    /\ importer = "none"
    /\ file = Unparseable
    /\ options = [cover |-> FALSE, fixedViewport |-> FALSE]
    /\ store \in InitialStores
    /\ store0 = store
    /\ exporting = FALSE
    /\ notifications = <<>>
    /\ calls = <<>>
    /\ ratio = <<96, 72>>
    /\ rawSlides = <<>>
    /\ slides = <<>>
    /\ slide = EmptySlide
    /\ stack = <<>>
    /\ awaiting = <<>>

\* importJSON, lines 46-58 and 102
ImportJSON ==
    /\ pc = "idle"
    /\ \E f \in JsonFiles, o \in Options :
         /\ file' = f
         /\ options' = o
    /\ importer' = "json"
    /\ exporting' = TRUE
    /\ pc' = "reading"
    /\ UNCHANGED <<store, store0, notifications, calls, ratio, rawSlides, slides,
                   slide, stack, awaiting>>

\* importJSON and importPPTXFile with an empty file list, lines 53-54 and 824-825
ImportNoFile ==
    /\ pc = "idle"
    /\ importer' \in {"json", "pptx"}
    /\ pc' = "returned"
    /\ UNCHANGED <<file, options, store, store0, exporting, notifications, calls,
                   ratio, rawSlides, slides, slide, stack, awaiting>>

\* importSpecificFile, lines 106-109 and 128
ImportSpecificFile ==
    /\ pc = "idle"
    /\ \E f \in SpecificFiles, cover \in BOOLEAN :
         /\ file' = f
         /\ options' = [cover |-> cover, fixedViewport |-> FALSE]
    /\ importer' = "specific"
    /\ pc' = "reading"
    /\ UNCHANGED <<store, store0, exporting, notifications, calls, ratio, rawSlides,
                   slides, slide, stack, awaiting>>

\* importPPTXFile, lines 817-829 and 856
ImportPPTXFile ==
    /\ pc = "idle"
    /\ \E f \in PptxFiles, o \in Options :
         /\ file' = f
         /\ options' = o
    /\ importer' = "pptx"
    /\ exporting' = TRUE
    /\ pc' = "reading"
    /\ UNCHANGED <<store, store0, notifications, calls, ratio, rawSlides, slides,
                   slide, stack, awaiting>>

\* The FileReader fails: no load event, and no importer listens for the error.
FileReadFails ==
    /\ pc = "reading"
    /\ pc' = "readError"
    /\ UNCHANGED <<importer, file, options, store, store0, exporting, notifications,
                   calls, ratio, rawSlides, slides, slide, stack, awaiting>>

\* An exception inside processSlidesFromRawData: importJSON catches it (lines
\* 96-100); importPPTXFile awaits outside any try (line 841), so the load
\* handler's promise rejects and nothing after line 841 runs.
ConversionThrows ==
    IF importer = "json"
    THEN /\ pc' = "failed"
         /\ exporting' = FALSE
         /\ notifications' = Append(notifications, FileErrorMessage)
    ELSE /\ pc' = "crashed"
         /\ UNCHANGED <<exporting, notifications>>

\* The load listener of importJSON, lines 59-101, up to its first await that
\* suspends, or to its end.
JSONLoad ==
    /\ pc = "reading"
    /\ importer = "json"
    /\ LET json == file.json
           raw == isRawFormat(json)
           value == IF json.kind = "array" THEN json.items ELSE json.slides
           isArray == json.kind = "array" \/ json.hasSlides
       IN  IF ~file.parses \/ json.kind = "null"
           THEN \* JSON.parse throws, or jsonData.size throws on null
                /\ ConversionThrows
                /\ UNCHANGED <<store, calls, ratio, rawSlides, slides>>
           ELSE IF raw
           THEN /\ ratio' = RatioOf(json, options.fixedViewport)
                /\ store' = PrologueStore(store, json, options.fixedViewport)
                /\ calls' = calls \o PrologueCalls(json, options.fixedViewport)
                /\ IF json.hasSlides
                   THEN /\ pc' = "slides"
                        /\ rawSlides' = json.slides
                        /\ slides' = <<>>
                        /\ UNCHANGED <<exporting, notifications>>
                   ELSE \* line 330: json.slides is not iterable
                        /\ ConversionThrows
                        /\ UNCHANGED <<rawSlides, slides>>
           ELSE IF ~isArray
           THEN \* line 79
                /\ ConversionThrows
                /\ UNCHANGED <<store, calls, ratio, rawSlides, slides>>
           ELSE /\ store' = MergeStore(store, options.cover, TRUE, value)
                /\ calls' = calls \o MergeCalls(store, options.cover)
                /\ exporting' = FALSE
                /\ pc' = "done"
                /\ UNCHANGED <<notifications, ratio, rawSlides, slides>>
    /\ UNCHANGED <<importer, file, options, store0, slide, stack, awaiting>>

\* The load listener of importSpecificFile, lines 110-127.
SpecificLoad ==
    /\ pc = "reading"
    /\ importer = "specific"
    /\ LET json == file.json
           defined == json.kind = "object" /\ json.hasSlides
       IN  IF ~file.parses \/ json.kind = "null" \/ MergeThrows(store, options.cover, defined)
           THEN /\ pc' = "failed"
                /\ notifications' = Append(notifications, FileErrorMessage)
                /\ UNCHANGED <<store, calls>>
           ELSE /\ store' = MergeStore(store, options.cover, defined,
                                       IF defined THEN json.slides ELSE <<>>)
                /\ calls' = calls \o MergeCalls(store, options.cover)
                /\ pc' = "done"
                /\ UNCHANGED notifications
    /\ UNCHANGED <<importer, file, options, store0, exporting, ratio, rawSlides,
                   slides, slide, stack, awaiting>>

\* reader.onload of importPPTXFile, lines 830-841, up to the loop of
\* processSlidesFromRawData.
PPTXLoad ==
    /\ pc = "reading"
    /\ importer = "pptx"
    /\ LET json == file.json
       IN  IF ~file.parses
           THEN \* lines 835-839
                /\ pc' = "failed"
                /\ exporting' = FALSE
                /\ notifications' = Append(notifications, FileErrorMessage)
                /\ UNCHANGED <<store, calls, ratio, rawSlides, slides>>
           ELSE /\ ratio' = RatioOf(json, options.fixedViewport)
                /\ store' = PrologueStore(store, json, options.fixedViewport)
                /\ calls' = calls \o PrologueCalls(json, options.fixedViewport)
                /\ IF json.hasSlides
                   THEN /\ pc' = "slides"
                        /\ rawSlides' = json.slides
                        /\ slides' = <<>>
                        /\ UNCHANGED <<exporting, notifications>>
                   ELSE /\ ConversionThrows
                        /\ UNCHANGED <<rawSlides, slides>>
    /\ UNCHANGED <<importer, file, options, store0, slide, stack, awaiting>>

----------------------------------------------------------------------------
(* processSlidesFromRawData: the loop over json.slides, lines 330-811.      *)

\* lines 330-370 and 809: the next raw slide is taken up
NextSlide ==
    /\ pc = "slides"
    /\ rawSlides # <<>>
    /\ slide' = NewSlide(Head(rawSlides))
    /\ stack' = <<SlideElements(Head(rawSlides))>>
    /\ rawSlides' = Tail(rawSlides)
    /\ pc' = "elements"
    /\ UNCHANGED <<importer, file, options, store, store0, exporting, notifications,
                   calls, ratio, slides, awaiting>>

\* line 813, then lines 83-94 or 843-854: the slides are returned and merged
ReturnSlides ==
    /\ pc = "slides"
    /\ rawSlides = <<>>
    /\ store' = MergeStore(store, options.cover, TRUE, slides)
    /\ calls' = calls \o MergeCalls(store, options.cover)
    /\ exporting' = FALSE
    /\ pc' = "done"
    /\ UNCHANGED <<importer, file, options, store0, notifications, ratio, rawSlides,
                   slides, slide, stack, awaiting>>

\* The raw element the innermost parseElements call takes up next.
NextElement == Head(Head(stack))

\* The stack once the innermost call has moved past that element.
StackAfter == <<Tail(Head(stack))>> \o Tail(stack)

\* One pass of the loop of line 372 for an element that is converted (or
\* skipped) on the spot.
ParseLeaf ==
    /\ pc = "elements"
    /\ stack # <<>> /\ Head(stack) # <<>>
    /\ ~IsContainer(NextElement)
    /\ ~(NextElement.type = "image" /\ IsEmfSrc(NextElement.src))
    /\ ~ShapeThrows(NextElement)
    /\ slide' = [slide EXCEPT !.elements = @ \o Produced(NextElement, ratio)]
    /\ stack' = StackAfter
    /\ UNCHANGED <<pc, importer, file, options, store, store0, exporting, notifications,
                   calls, ratio, rawSlides, slides, awaiting>>

\* A plausible slip: the transcoder is called but not awaited, and the loop
\* goes on while the call is outstanding.
ParseEmfImageNotAwaited ==
    /\ pc = "elements"
    /\ stack # <<>> /\ Head(stack) # <<>>
    /\ NextElement.type = "image" /\ IsEmfSrc(NextElement.src)
    /\ awaiting' = <<Scaled(NextElement, ratio)>>
    /\ stack' = StackAfter
    /\ UNCHANGED <<pc, importer, file, options, store, store0, exporting, notifications,
                   calls, ratio, rawSlides, slides, slide>>

\* lines 417-418 and 284-290: a legacy vector image waits for the transcoder
ParseEmfImage ==
    /\ pc = "elements"
    /\ stack # <<>> /\ Head(stack) # <<>>
    /\ NextElement.type = "image" /\ IsEmfSrc(NextElement.src)
    /\ awaiting' = <<Scaled(NextElement, ratio)>>
    /\ stack' = StackAfter
    /\ pc' = "transcoding"
    /\ UNCHANGED <<importer, file, options, store, store0, exporting, notifications,
                   calls, ratio, rawSlides, slides, slide>>

\* WMF2PNG.getPNG settles; the await of line 290 has yet to resume
TranscoderSettles ==
    /\ pc = "transcoding"
    /\ \E outcome \in TranscoderOutcomes : awaiting' = <<awaiting[1], outcome>>
    /\ pc' = "transcoded"
    /\ UNCHANGED <<importer, file, options, store, store0, exporting, notifications,
                   calls, ratio, rawSlides, slides, slide, stack>>

\* lines 290-304 and 421-463: convertEmfDataUrlToPng resumes and returns, and
\* the image is pushed
ResumeAfterTranscoder ==
    /\ pc = "transcoded"
    /\ LET el == awaiting[1]
           got == convertEmfResult(el.src, awaiting[2])
       IN  /\ slide' = [slide EXCEPT !.elements = Append(@, ImageElement(el, got.src))]
           /\ notifications' = IF got.failed THEN Append(notifications, EmfErrorMessage)
                               ELSE notifications
    /\ awaiting' = <<>>
    /\ pc' = "elements"
    /\ UNCHANGED <<importer, file, options, store, store0, exporting, calls, ratio,
                   rawSlides, slides, stack>>

\* lines 774-806: a group or diagram; parseElements is called on its children
ParseContainer ==
    /\ pc = "elements"
    /\ stack # <<>> /\ Head(stack) # <<>>
    /\ IsContainer(NextElement)
    /\ LET raw == NextElement
           children == ContainerChildren(raw, raw.left, raw.top,
                                         OriginSize(raw.width), OriginSize(raw.height))
       IN  stack' = <<SortByOrder(children)>> \o StackAfter
    /\ UNCHANGED <<pc, importer, file, options, store, store0, exporting, notifications,
                   calls, ratio, rawSlides, slides, slide, awaiting>>

\* line 601 throws inside the loop
ParseThrows ==
    /\ pc = "elements"
    /\ stack # <<>> /\ Head(stack) # <<>>
    /\ ShapeThrows(NextElement)
    /\ ConversionThrows
    /\ UNCHANGED <<importer, file, options, store, store0, calls, ratio, rawSlides,
                   slides, slide, stack, awaiting>>

\* The loop of line 372 ends: a recursive call returns to line 797 or 805
EndInnerParse ==
    /\ pc = "elements"
    /\ Len(stack) > 1 /\ Head(stack) = <<>>
    /\ stack' = Tail(stack)
    /\ UNCHANGED <<pc, importer, file, options, store, store0, exporting, notifications,
                   calls, ratio, rawSlides, slides, slide, awaiting>>

\* The outermost call returns to line 809; line 810 pushes the slide
PushSlide ==
    /\ pc = "elements"
    /\ Len(stack) = 1 /\ Head(stack) = <<>>
    /\ slides' = Append(slides, slide)
    /\ stack' = <<>>
    /\ pc' = "slides"
    /\ UNCHANGED <<importer, file, options, store, store0, exporting, notifications,
                   calls, ratio, rawSlides, slide, awaiting>>

Next ==
    \/ ImportJSON
    \/ ImportNoFile
    \/ ImportSpecificFile
    \/ ImportPPTXFile
    \/ FileReadFails
    \/ JSONLoad
    \/ SpecificLoad
    \/ PPTXLoad
    \/ NextSlide
    \/ ReturnSlides
    \/ ParseLeaf
    \/ ParseEmfImage
    \/ TranscoderSettles
    \/ ResumeAfterTranscoder
    \/ ParseContainer
    \/ ParseThrows
    \/ EndInnerParse
    \/ PushSlide

Spec == Init /\ [][Next]_vars

----------------------------------------------------------------------------
(* What the properties below speak of.                                      *)

\* processSlidesFromRawData has been called in this import.
ConversionStarted ==
    /\ importer \in {"json", "pptx"}
    /\ pc \notin {"idle", "reading", "readError", "returned"}
    /\ file.parses
    /\ file.json.kind = "object"
    /\ importer = "json" => isRawFormat(file.json)

\* The current slide is being filled.
FillingSlide == pc \in {"elements", "transcoding", "transcoded"}

\* The slides produced so far, the one being filled included.
ProducedSlides ==
    IF FillingSlide THEN Append(slides, slide) ELSE slides

\* The raw slide the k-th produced slide is converted from.
RawSlideOf(k) == file.json.slides[k]

\* The list line 809 hands to parseElements.
TopList(item) == item.elements \o item.layoutElements

RECURSIVE TagsIn(_)
\* The tags of the raw elements of a list and of all that its containers hold.
TagsIn(list) ==
    UNION { {list[i].tag} \cup (IF IsContainer(list[i]) THEN TagsIn(list[i].elements) ELSE {})
            : i \in 1..Len(list) }

\* The tags of a raw element and of all it contains.
TagsOf(el) == {el.tag} \cup (IF IsContainer(el) THEN TagsIn(el.elements) ELSE {})

\* The place in a list of the element that is, or contains, the tagged one.
PlaceOf(list, tag) == CHOOSE i \in 1..Len(list) : tag \in TagsOf(list[i])

RECURSIVE FindRaw(_, _)
\* The raw element of a list, at any depth, that carries the tag.
FindRaw(list, tag) ==
    LET i == PlaceOf(list, tag)
    IN  IF list[i].tag = tag THEN list[i] ELSE FindRaw(list[i].elements, tag)

\* The raw element of a slide that carries the tag.
RawByTag(item, tag) == FindRaw(TopList(item), tag)

\* How often a store mutation was called.
CallCount(name) == Cardinality({i \in 1..Len(calls) : calls[i] = name})

\* The load handler ended without a slide list.
ImportFailed == pc \in {"failed", "crashed"}

----------------------------------------------------------------------------
(* C1.  A failed import leaves the store as it was.                         *)

\* C1: whenever importJSON or importPPTXFile has failed (a parse failure or an
\* exception during the conversion), slides, slide index, viewport size and
\* theme colours of the store are what they were when the import started, and
\* no store mutation has been called.
C1_FailedImportLeavesStore ==
    (importer \in {"json", "pptx"} /\ ImportFailed) => (store = store0 /\ calls = <<>>)

----------------------------------------------------------------------------
(* C2.  A document-level failure is reported exactly once.                  *)

\* C2: whenever the load handler of an importer has ended without a slide
\* list, message.error has been called exactly once and the slides of the
\* store are unchanged.
C2_FailureNotifiesOnce ==
    ImportFailed =>
        /\ Len(notifications) = 1
        /\ store.slides = store0.slides
        /\ store.slidesDefined

----------------------------------------------------------------------------
(* C3.  A shape that resolves to nothing.                                   *)

\* A raw shape, not a line or connector, that matches no shape-table entry
\* and has no usable path: none, or one with an invalid numeric token.
Unresolvable(raw) ==
    /\ raw.type = "shape"
    /\ ~(raw.shapType = "line" \/ IsConnector(raw.shapType))
    /\ FindShape(raw.shapType) = <<>>
    /\ (~raw.hasPath \/ IncludesNaN(raw.path))

RECURSIVE UnresolvedTags(_)
\* The tags of the unresolvable raw shapes of a list, at any depth, whose
\* shapType is not 'custom'.
UnresolvedTags(list) ==
    UNION { IF IsContainer(list[i]) THEN UnresolvedTags(list[i].elements)
            ELSE IF Unresolvable(list[i]) /\ list[i].shapType # "custom" THEN {list[i].tag}
            ELSE {}
            : i \in 1..Len(list) }

----------------------------------------------------------------------------
(* C4.  Containers are flattened away.                                      *)

OutputKinds == {"text", "image", "shape", "line", "table", "chart", "audio", "video"}

\* The converter of a raw element that is no container pushes an element.
KeptByConverter(raw) ==
    \/ raw.type \in {"text", "image", "math", "audio", "video", "table", "chart"}
    \/ /\ raw.type = "shape"
       /\ \/ raw.shapType = "line"
          \/ IsConnector(raw.shapType)
          \/ raw.shapType # "custom"
          \/ raw.hasPath /\ raw.path # ""

RECURSIVE KeptTags(_)
\* The tags of the raw elements of a list that are no containers and are
\* kept by their converter, at any depth.
KeptTags(list) ==
    UNION { IF IsContainer(list[i]) THEN KeptTags(list[i].elements)
            ELSE IF KeptByConverter(list[i]) THEN {list[i].tag} ELSE {}
            : i \in 1..Len(list) }

\* C4: every produced element is of one of the eight output kinds, never a
\* group or a diagram; a finished slide holds, exactly once each, the raw
\* elements of its slide, at any depth of nesting, that are no containers and
\* are kept by their converter, and a slide being filled holds none twice and
\* none from elsewhere.
C4_ContainersFlattened ==
    \A k \in 1..Len(ProducedSlides) :
        \A kept \in {KeptTags(TopList(RawSlideOf(k)))} :
            LET got == ProducedSlides[k].elements
            IN  /\ \A i \in 1..Len(got) : got[i].type \in OutputKinds /\ got[i].from \in kept
                /\ Cardinality({got[i].from : i \in 1..Len(got)}) = Len(got)
                /\ k <= Len(slides) => {got[i].from : i \in 1..Len(got)} = kept

\* C4 witness: a finished slide holds the elements of a group nested in a
\* group and of a group nested in a diagram.
C4_Witness ==
    \E k \in 1..Len(slides) :
        {"g2.text", "g2.png", "g.line", "g3.video", "d.audio"}
            \subseteq {slides[k].elements[i].from : i \in 1..Len(slides[k].elements)}

----------------------------------------------------------------------------
(* C5.  The order of the produced elements.                                 *)

RECURSIVE WaysIn(_, _)
\* For every raw element of a list, at any depth, its tag with the way down
\* to it: at each depth the order and the place, in its raw list, of the
\* element that is, or contains, it.
WaysIn(list, prefix) ==
    UNION { LET way == Append(prefix, <<list[i].order, i>>)
            IN  {<<list[i].tag, way>>}
                \cup (IF IsContainer(list[i]) THEN WaysIn(list[i].elements, way) ELSE {})
            : i \in 1..Len(list) }

\* The way to the tagged element.
WayOf(ways, tag) == (CHOOSE w \in ways : w[1] = tag)[2]

\* In the order the claim gives, a way p comes before a way q: where the two
\* part, p has the smaller order, or the same order and the earlier place.
ComesBefore(p, q) ==
    \E n \in 1..Len(p) :
        /\ n <= Len(q)
        /\ \A m \in 1..(n - 1) : p[m] = q[m]
        /\ \/ p[n][1] < q[n][1]
           \/ p[n][1] = q[n][1] /\ p[n][2] < q[n][2]

\* C5: within a produced slide the elements stand in ascending raw order,
\* equal orders in raw sequence, the descendants of a container as one block
\* at the container's place, sorted in the same way among themselves.  Each
\* element comes before its successor; ComesBefore is a lexicographic order,
\* hence transitive, so each comes before all that follow it.
C5_ElementsInRawOrder ==
    \A k \in 1..Len(ProducedSlides) :
        \A all \in { WaysIn(TopList(RawSlideOf(k)), <<>>) } :
            \A ways \in { [i \in 1..Len(ProducedSlides[k].elements) |->
                             WayOf(all, ProducedSlides[k].elements[i].from)] } :
                \A i \in 1..(Len(ways) - 1) : ComesBefore(ways[i], ways[i + 1])

\* A list has a pair out of order and a pair of equal order.
NeedsSorting(list) ==
    /\ \E i, j \in 1..Len(list) : i < j /\ list[i].order > list[j].order
    /\ \E i, j \in 1..Len(list) : i < j /\ list[i].order = list[j].order

\* C5 witness: a finished slide whose raw list was out of order, had a tie
\* and held a group, with the group's elements produced.
C5_Witness ==
    \E k \in 1..Len(slides) :
        /\ NeedsSorting(TopList(RawSlideOf(k)))
        /\ \E i \in 1..Len(slides[k].elements) : slides[k].elements[i].from = "g2.text"
        /\ Len(slides[k].elements) >= 10

----------------------------------------------------------------------------
(* C6.  Layout elements.                                                    *)

\* The places in a produced slide of the elements that come from one of the
\* raw elements of a list.
PlacesFrom(got, list) ==
    LET tags == TagsIn(list)
    IN  {i \in 1..Len(got) : got[i].from \in tags}

\* C6 as claimed: in a finished slide every element from a layout element
\* comes after every element from one of the slide's own elements.
C6_LayoutAfterOwn ==
    \A k \in 1..Len(slides) :
        \A i \in PlacesFrom(slides[k].elements, RawSlideOf(k).layoutElements) :
            \A j \in PlacesFrom(slides[k].elements, RawSlideOf(k).elements) : j < i

\* C6 as amended: in a finished slide an element from a layout element comes
\* after the elements from those of the slide's own elements whose order is
\* not larger than the layout element's, and before the elements from those
\* whose order is larger.
C6_LayoutMergedByOrder ==
    \A k \in 1..Len(slides) :
        LET item == RawSlideOf(k)
            got == slides[k].elements
        IN  \A n \in 1..Len(item.layoutElements), m \in 1..Len(item.elements) :
                \A i \in PlacesFrom(got, <<item.layoutElements[n]>>) :
                    \A j \in PlacesFrom(got, <<item.elements[m]>>) :
                        (j < i) <=> (item.elements[m].order <= item.layoutElements[n].order)

\* C6 witness: a finished slide in which an element from a layout element
\* stands before an element from one of the slide's own elements and after
\* an element from another.
C6_Witness ==
    \E k \in 1..Len(slides) :
        LET own == PlacesFrom(slides[k].elements, RawSlideOf(k).elements)
            layout == PlacesFrom(slides[k].elements, RawSlideOf(k).layoutElements)
        IN  /\ \E i \in layout : \E j \in own : i < j
            /\ \E i \in layout : \E j \in own : j < i

----------------------------------------------------------------------------
(* C7.  The endpoints of an unrotated line.                                 *)

\* The innermost parseElements call is about to convert an unrotated line or
\* connector.
AtUnrotatedLine ==
    /\ pc = "elements"
    /\ stack # <<>> /\ Head(stack) # <<>>
    /\ NextElement.type = "shape"
    /\ (NextElement.shapType = "line" \/ IsConnector(NextElement.shapType))
    /\ NextElement.rotate = 0

\* The element the step has pushed to the slide being filled.
Pushed == slide'.elements[Len(slide'.elements)]

\* C7 as claimed: the step that converts an unrotated line of width w and
\* height h pushes a line whose start and end are [0,0] and [w,h] with no
\* flag, [w,h] and [0,0] with both, [w,0] and [0,h] with flipV only, [0,h]
\* and [w,0] with flipH only.
C7_LineEndpointsAsClaimed ==
    [][AtUnrotatedLine =>
        LET w == Scale(NextElement.width, ratio)
            h == Scale(NextElement.height, ratio)
            v == NextElement.isFlipV
            f == NextElement.isFlipH
        IN  /\ Len(slide'.elements) = Len(slide.elements) + 1
            /\ Pushed.type = "line"
            /\ (~v /\ ~f) => Pushed.start = <<0, 0>> /\ Pushed.end = <<w, h>>
            /\ (v /\ f) => Pushed.start = <<w, h>> /\ Pushed.end = <<0, 0>>
            /\ (v /\ ~f) => Pushed.start = <<w, 0>> /\ Pushed.end = <<0, h>>
            /\ (~v /\ f) => Pushed.start = <<0, h>> /\ Pushed.end = <<w, 0>>]_vars

\* C7 as amended: the step that converts an unrotated line of width w and
\* height h pushes a line whose start and end are [0,0] and [w,h] with no
\* flag, [w,h] and [0,0] with both, [0,h] and [w,0] with flipV only, [w,0]
\* and [0,h] with flipH only.
C7_LineEndpointsByFlags ==
    [][AtUnrotatedLine =>
        LET w == Scale(NextElement.width, ratio)
            h == Scale(NextElement.height, ratio)
            v == NextElement.isFlipV
            f == NextElement.isFlipH
        IN  /\ Len(slide'.elements) = Len(slide.elements) + 1
            /\ Pushed.type = "line"
            /\ (~v /\ ~f) => Pushed.start = <<0, 0>> /\ Pushed.end = <<w, h>>
            /\ (v /\ f) => Pushed.start = <<w, h>> /\ Pushed.end = <<0, 0>>
            /\ (v /\ ~f) => Pushed.start = <<0, h>> /\ Pushed.end = <<w, 0>>
            /\ (~v /\ f) => Pushed.start = <<w, 0>> /\ Pushed.end = <<0, h>>]_vars

\* C7 witness: a slide holds the line of a connector flipped vertically only,
\* from bottom-left to top-right, and that of one flipped horizontally only,
\* from top-right to bottom-left.
C7_Witness ==
    \E i, j \in 1..Len(slide.elements) :
        /\ slide.elements[i].from = "g.line"
        /\ slide.elements[i].start[1] = 0 /\ slide.elements[i].start[2] > 0
        /\ slide.elements[i].end[1] > 0 /\ slide.elements[i].end[2] = 0
        /\ slide.elements[j].from = "g2.line"
        /\ slide.elements[j].start[1] > 0 /\ slide.elements[j].start[2] = 0
        /\ slide.elements[j].end[1] = 0 /\ slide.elements[j].end[2] > 0

----------------------------------------------------------------------------
(* C8.  The viewport size.                                                  *)

\* C8 as claimed: once processSlidesFromRawData has been called,
\* setViewportSize has been called exactly once.
C8_ViewportSetExactlyOnce ==
    ConversionStarted => CallCount("setViewportSize") = 1

\* C8 as amended: once processSlidesFromRawData has been called,
\* setViewportSize has been called once, with the declared width times 96/72,
\* if the document declares a width other than 0 and fixedViewport is off;
\* otherwise it has not been called and the viewport size is what it was.
C8_ViewportSetUnlessFixed ==
    ConversionStarted =>
        IF file.json.hasSize /\ file.json.width # 0 /\ ~options.fixedViewport
        THEN /\ CallCount("setViewportSize") = 1
             /\ store.viewportSize = (file.json.width * 96) \div 72
        ELSE /\ CallCount("setViewportSize") = 0
             /\ store.viewportSize = store0.viewportSize

\* C8 witness: an import of two slides has ended, with one call; and the
\* viewport is that of the declared width.
C8_Witness ==
    /\ pc = "done"
    /\ ConversionStarted
    /\ Len(slides) = 2
    /\ ~options.fixedViewport
    /\ CallCount("setViewportSize") = 1
    /\ store.viewportSize = 4000
    /\ store0.viewportSize = 1000

----------------------------------------------------------------------------
(* C9.  The viewBox of a shape.                                             *)

\* A raw shape that matched a shape-table entry or carried a path with no
\* invalid numeric token.
WellFormedShape(raw) ==
    /\ raw.type = "shape"
    /\ ~(raw.shapType = "line" \/ IsConnector(raw.shapType))
    /\ \/ FindShape(raw.shapType) # <<>>
       \/ raw.hasPath /\ raw.path # "" /\ ~IncludesNaN(raw.path)

\* C9: every produced shape that comes from such a raw shape has a viewBox
\* with both components strictly positive.
C9_ViewBoxPositive ==
    \A k \in 1..Len(ProducedSlides) :
        \A i \in 1..Len(ProducedSlides[k].elements) :
            LET got == ProducedSlides[k].elements[i]
            IN  (got.type = "shape" /\ WellFormedShape(RawByTag(RawSlideOf(k), got.from)))
                    => FracPositive(got.viewBox[1]) /\ FracPositive(got.viewBox[2])

----------------------------------------------------------------------------
(* C10.  The transcoder fails.                                              *)

\* C10: when convertEmfDataUrlToPng resumes, the image is pushed to the slide
\* being filled, after the elements already there, and the conversion goes on
\* with the same elements and slides still to come, whatever the transcoder
\* settled with; if it rejected or returned no image source, the image keeps
\* its raw source and one error notification is emitted.
C10_TranscoderFailureFallsBack ==
    [][pc = "transcoded" =>
        LET raw == awaiting[1]
            failed == awaiting[2].rejected \/ SrcMatch(awaiting[2].html) = <<>>
        IN  /\ pc' = "elements"
            /\ slide'.elements = Append(slide.elements, Pushed)
            /\ Pushed.type = "image"
            /\ Pushed.from = raw.tag
            /\ UNCHANGED <<stack, rawSlides, slides, store, calls, exporting, ratio>>
            /\ IF failed
               THEN /\ Pushed.src = raw.src
                    /\ notifications' = Append(notifications, EmfErrorMessage)
               ELSE /\ Pushed.src = ConvertedPng
                    /\ notifications' = notifications]_vars

\* C10 witness: an import of two slides has ended with the slides merged,
\* after the transcoder failed for an image of the first: the image is there
\* with its raw source, before a later element, and the one notification is
\* that of the image.
C10_Witness ==
    /\ pc = "done"
    /\ Len(slides) = 2
    /\ notifications = <<EmfErrorMessage>>
    /\ slides[1].elements[1].from = "emf"
    /\ slides[1].elements[1].src = EmfDataUrl
    /\ slides[1].elements[2].from = "text"
    /\ Len(slides[2].elements) = 8

----------------------------------------------------------------------------
(* C11.  One transcoder call at a time.                                     *)

RECURSIVE FlatTags(_)
\* The tags of the elements a sorted list produces, in the order in which
\* parseElements reaches them: the list in sequence, a container replaced by
\* what its sorted children produce.
FlatTags(list) ==
    IF list = <<>> THEN <<>>
    ELSE LET el == Head(list)
         IN  (IF IsContainer(el) THEN FlatTags(SortByOrder(el.elements))
              ELSE IF KeptByConverter(el) THEN <<el.tag>>
              ELSE <<>>)
             \o FlatTags(Tail(list))

\* The tags of the elements the raw slide being converted produces, in order.
FlatTagsNow == FlatTags(SortByOrder(TopList(RawSlideOf(Len(slides) + 1))))

\* C11: a transcoder call is outstanding exactly while the conversion waits
\* for it, so there is never a second one.  Every element pushed to a slide is
\* the one that comes next in the one order the raw slide gives, whatever the
\* transcoder calls settled with; a call is issued for the image that comes
\* next, after all that comes before it, and nothing is pushed or finished
\* until it has settled; a slide is finished when it holds all its elements.
C11_OneTranscoderCallAtATime ==
    /\ []((awaiting # <<>>) <=> (pc \in {"transcoding", "transcoded"}))
    /\ [][/\ (FillingSlide /\ slide'.elements # slide.elements) =>
               \A want \in { FlatTagsNow } :
                   /\ Len(slide.elements) < Len(want)
                   /\ slide'.elements = Append(slide.elements, Pushed)
                   /\ Pushed.from = want[Len(slide.elements) + 1]
                   /\ (pc = "transcoded" => Pushed.from = awaiting[1].tag)
          /\ (pc = "elements" /\ pc' = "transcoding") =>
               \A want \in { FlatTagsNow } :
                   /\ Len(slide.elements) < Len(want)
                   /\ awaiting'[1].tag = want[Len(slide.elements) + 1]
          /\ pc \in {"transcoding", "transcoded"} =>
               /\ UNCHANGED <<stack, slides, rawSlides>>
               /\ (pc = "transcoding" => UNCHANGED slide)
          /\ (pc = "elements" /\ pc' = "slides") =>
               /\ Len(slide.elements) = Len(FlatTagsNow)
               /\ slides' = Append(slides, slide)
      ]_vars

\* C11 witness: the call for the image of a group is outstanding; the
\* elements of an earlier diagram and of the group nested in it, and the
\* group's own elements that come before the image, are in the slide, and
\* those that come after it are not.
C11_Witness ==
    /\ pc = "transcoding"
    /\ awaiting[1].tag = "g.emf"
    /\ {"d.audio", "g3.video", "g.wide"}
           \subseteq {slide.elements[i].from : i \in 1..Len(slide.elements)}
    /\ "g2.text" \notin {slide.elements[i].from : i \in 1..Len(slide.elements)}

----------------------------------------------------------------------------
(* flipGroupElements on its own: a list of siblings is flipped twice about  *)
(* one axis.  stack holds, newest first, the results, the list each call    *)
(* was given as it is after the call, and at the bottom the list as it was  *)
(* before the first call; pc holds the axis.                                *)

\* Siblings of varied geometry: zero and differing sizes, negative positions.
FlipPool ==
    { RawText("a", 0, 0, 0, 6, 3),
      RawText("b", 0, 3, 6, 12, 6),
      RawText("c", 0, -6, 3, 3, 0),
      RawText("d", 0, 9, -3, 0, 9),
      RawImage("e", 0, PngSrc, 6, 12, 3, 3),
      RawShape("f", 0, "rect", FALSE, "", 15, 0, 6, 6, 0, FALSE, FALSE) }

\* The non-empty lists of at most MaxSiblings siblings.
FlipLists == UNION { [1..k -> FlipPool] : k \in 1..MaxSiblings }

InitFlip ==
    /\ pc \in {"flip x", "flip y"}
    /\ stack \in { <<list>> : list \in FlipLists }
    /\ importer = "none"
    /\ file = Unparseable
    /\ options = [cover |-> FALSE, fixedViewport |-> FALSE]
    /\ store \in { st \in InitialStores : Len(st.slides) = 1 }
    /\ store0 = store
    /\ exporting = FALSE
    /\ notifications = <<>>
    /\ calls = <<>>
    /\ ratio = <<96, 72>>
    /\ rawSlides = <<>>
    /\ slides = <<>>
    /\ slide = EmptySlide
    /\ awaiting = <<>>

\* flipGroupElements(elements, axis) is called on the newest list
Flip ==
    /\ pc \in {"flip x", "flip y"}
    /\ Len(stack) < 5
    /\ LET axis == IF pc = "flip x" THEN "x" ELSE "y"
           result == flipGroupElements(Head(stack), axis)
       IN  stack' = <<result, InputAfterFlip(Head(stack), result)>> \o stack
    /\ UNCHANGED <<pc, importer, file, options, store, store0, exporting, notifications,
                   calls, ratio, rawSlides, slides, slide, awaiting>>

NextFlip == Flip

SpecFlip == InitFlip /\ [][NextFlip]_vars

----------------------------------------------------------------------------
(* C12.  flipGroupElements is an involution.                                *)

\* The joint bounding box of a list of siblings.
BoundingBox(list) ==
    [minX |-> SetMin({list[i].left : i \in 1..Len(list)}),
     maxX |-> SetMax({list[i].left + list[i].width : i \in 1..Len(list)}),
     minY |-> SetMin({list[i].top : i \in 1..Len(list)}),
     maxY |-> SetMax({list[i].top + list[i].height : i \in 1..Len(list)})]

\* Two lists agree in everything but left and top.
SameButPlace(p, q) ==
    /\ Len(p) = Len(q)
    /\ \A i \in 1..Len(p) : [p[i] EXCEPT !.left = 0, !.top = 0] = [q[i] EXCEPT !.left = 0, !.top = 0]

----------------------------------------------------------------------------
(* C13.  A document with no slides.                                         *)

\* The file holds an object with no slides: the slides member is missing or
\* is the empty list.
NoSlidesDocument ==
    /\ file.parses
    /\ file.json.kind = "object"
    /\ (~file.json.hasSlides \/ file.json.slides = <<>>)

\* C13: when the load handler of importJSON or importPPTXFile has ended for a
\* document with no slides, it has ended without an error, no notification
\* has been emitted, and the empty slide sequence has been merged.
C13_EmptyDocumentNoError ==
    (importer \in {"json", "pptx"} /\ pc \in {"done", "failed", "crashed"} /\ NoSlidesDocument)
        => /\ pc = "done"
           /\ notifications = <<>>
           /\ store.slides = MergeStore(store0, options.cover, TRUE, <<>>).slides

----------------------------------------------------------------------------
(* C14.  The children of an unturned container.                             *)

\* A group or diagram that is neither rotated nor flipped.
Unturned(el) == IsContainer(el) /\ el.rotate = 0 /\ ~el.isFlipH /\ ~el.isFlipV

RECURSIVE OffsetChildren(_, _, _, _)
\* The raw elements of a list that are no containers and lie, at any depth,
\* within unturned containers only, in sequence: each with the sums L and T
\* of the raw left and top of the containers around it.
OffsetChildren(list, L, T, depth) ==
    IF list = <<>> THEN <<>>
    ELSE LET el == Head(list)
         IN  (IF IsContainer(el)
              THEN IF Unturned(el)
                   THEN OffsetChildren(el.elements, L + el.left, T + el.top, depth + 1)
                   ELSE <<>>
              ELSE IF depth > 0
                   THEN <<[tag |-> el.tag, left |-> el.left, top |-> el.top,
                           width |-> el.width, height |-> el.height, rotate |-> el.rotate,
                           zeroed |-> /\ el.type = "shape"
                                      /\ el.shapType = "custom"
                                      /\ IncludesNaN(el.path),
                           L |-> L, T |-> T]>>
                   ELSE <<>>)
             \o OffsetChildren(Tail(list), L, T, depth)

\* A fraction <<n, d>> is the integer v.
FractionIs(f, v) == f[1] = v * f[2]

\* A step pushes an element to the slide being filled.
Pushes == FillingSlide /\ Len(slide'.elements) = Len(slide.elements) + 1

\* The children, as above, of the raw slide being converted.
OffsetChildrenNow == OffsetChildren(TopList(RawSlideOf(Len(slides) + 1)), 0, 0, 0)

\* C14 as claimed: every element pushed for such a child is emitted with
\* left = (l + L) * r, top = (t + T) * r, width = w * r and height = h * r.
C14_ChildrenOffsetAndScaled ==
    [][Pushes =>
        \A cs \in { OffsetChildrenNow } :
            \A n \in 1..Len(cs) :
                Pushed.from = cs[n].tag =>
                    /\ Pushed.left = Scale(cs[n].left + cs[n].L, ratio)
                    /\ Pushed.top = Scale(cs[n].top + cs[n].T, ratio)
                    /\ FractionIs(Pushed.width, Scale(cs[n].width, ratio))
                    /\ Pushed.type # "line" =>
                           FractionIs(Pushed.height, Scale(cs[n].height, ratio))]_vars

\* The size the code gives a child: 0.1 in place of 0 for a custom shape
\* whose path holds an invalid numeric token.
SizeOfChild(zeroed, v, r) ==
    IF zeroed /\ v = 0 THEN <<1, 10>> ELSE <<Scale(v, r), 1>>

\* C14 as amended: every element pushed for such a child is emitted with
\* left = (l + L) * r and top = (t + T) * r, unless it is a line that is itself
\* rotated.  An element other than a line has width = w * r and height = h * r,
\* but 0.1 for a size of 0 of a custom shape whose path holds an invalid
\* numeric token.  A line has no height, its width is that of its stroke, and
\* unrotated it runs w * r across and h * r down between start and end.
C14_ChildrenOffsetScaledOnce ==
    [][Pushes =>
        \A cs \in { OffsetChildrenNow } :
            \A n \in 1..Len(cs) :
                LET c == cs[n]
                IN  Pushed.from = c.tag =>
                        /\ (Pushed.type = "line" /\ c.rotate # 0)
                           \/ /\ Pushed.left = Scale(c.left + c.L, ratio)
                              /\ Pushed.top = Scale(c.top + c.T, ratio)
                        /\ Pushed.type # "line" =>
                               /\ Pushed.width = SizeOfChild(c.zeroed, c.width, ratio)
                               /\ Pushed.height = SizeOfChild(c.zeroed, c.height, ratio)
                        /\ (Pushed.type = "line" /\ c.rotate = 0) =>
                               /\ Abs(Pushed.start[1] - Pushed.end[1]) = Scale(c.width, ratio)
                               /\ Abs(Pushed.start[2] - Pushed.end[2]) = Scale(c.height, ratio)
                               /\ Pushed.width = StrokeWidth(1, ratio)]_vars

\* C14 witness: at the fixed-viewport ratio 1000 / 3000 a finished slide holds
\* the image of a diagram at (6, 3) in a group at (6, 12), raw place (6, 3) and
\* size 9 by 3: it is at ((6 + 9 + 6) / 3, (3 + 6 + 12) / 3) = (7, 7), 3 by 1.
C14_Witness ==
    /\ ratio = <<1000, 3000>>
    /\ \E k \in 1..Len(slides) :
         \E i \in 1..Len(slides[k].elements) :
            /\ slides[k].elements[i].from = "s2.g.d.png"
            /\ slides[k].elements[i].left = 7
            /\ slides[k].elements[i].top = 7
            /\ slides[k].elements[i].width = <<3, 1>>
            /\ slides[k].elements[i].height = <<1, 1>>

----------------------------------------------------------------------------
(* C15.  The busy flag.                                                     *)

\* C15: once the load handler of importJSON or importPPTXFile has run to its
\* end, with the slides merged, with a parse failure or with an exception
\* raised during the conversion, exporting is false.
C15_ExportingReturnsToFalse ==
    (importer \in {"json", "pptx"} /\ pc \in {"done", "failed", "crashed"})
        => exporting = FALSE

====
